---- MODULE Spec2Model ----
(***************************************************************************)
(* agent-browser MCP server: the merged tool surface (handleToolCall,      *)
(* execute, ensureBrowserLaunched, getManager) over the module-level       *)
(* `manager` reference, with every `await` as a scheduling point; the      *)
(* tool registry MERGED_TOOLS and the mapper mapMergedToolToCommand; the   *)
(* SIGINT / SIGTERM handlers.                                              *)
(***************************************************************************)
EXTENDS Integers, Sequences, FiniteSets, TLC

\* ---------------------------------------------------------------- bounds
MaxInstances == 3      \* manager objects that may be constructed in a run
MaxProcs == 2          \* tool calls that may be in flight at the same time
MaxSignals == 1        \* termination signals delivered in a run

Procs == 1..MaxProcs
Insts == 1..MaxInstances
None == 0              \* manager === null

\* ------------------------------------------------- the tool registry
\* One record per entry of MERGED_TOOLS: its name, the keys of
\* inputSchema.properties, inputSchema.required, and the enum lists of its
\* properties as <<property, value>> pairs.
MERGED_TOOLS ==
  <<
    [ name |-> "browser_launch",
      properties |-> {"headless", "browser", "cdpPort", "cdpUrl",
        "executablePath", "args", "userAgent", "provider",
        "ignoreHTTPSErrors", "profile", "storageState", "allowFileAccess"},
      required |-> {},
      enums |-> {<<"browser", "chromium">>, <<"browser", "firefox">>,
        <<"browser", "webkit">>, <<"provider", "ios">>, <<"provider",
        "browserbase">>, <<"provider", "browseruse">>, <<"provider",
        "kernel">>} ],
    [ name |-> "browser_navigate",
      properties |-> {"url", "waitUntil", "headers"},
      required |-> {"url"},
      enums |-> {<<"waitUntil", "load">>, <<"waitUntil",
        "domcontentloaded">>, <<"waitUntil", "networkidle">>} ],
    [ name |-> "browser_snapshot",
      properties |-> {"interactiveOnly", "cursor", "compact", "depth",
        "selector"},
      required |-> {},
      enums |-> {} ],
    [ name |-> "browser_screenshot",
      properties |-> {"path", "fullPage", "selector"},
      required |-> {},
      enums |-> {} ],
    [ name |-> "browser_close",
      properties |-> {},
      required |-> {},
      enums |-> {} ],
    [ name |-> "browser_history",
      properties |-> {"action"},
      required |-> {"action"},
      enums |-> {<<"action", "back">>, <<"action", "forward">>, <<"action",
        "reload">>} ],
    [ name |-> "browser_page_info",
      properties |-> {"info"},
      required |-> {"info"},
      enums |-> {<<"info", "url">>, <<"info", "title">>} ],
    [ name |-> "browser_element_action",
      properties |-> {"action", "selector", "button", "clickCount"},
      required |-> {"action", "selector"},
      enums |-> {<<"action", "click">>, <<"action", "dblclick">>,
        <<"action", "hover">>, <<"action", "focus">>, <<"action", "tap">>,
        <<"button", "left">>, <<"button", "right">>, <<"button", "middle">>}
        ],
    [ name |-> "browser_input",
      properties |-> {"action", "selector", "value", "delay"},
      required |-> {"action", "selector", "value"},
      enums |-> {<<"action", "fill">>, <<"action", "type">>} ],
    [ name |-> "browser_input_action",
      properties |-> {"action", "selector"},
      required |-> {"action", "selector"},
      enums |-> {<<"action", "check">>, <<"action", "uncheck">>, <<"action",
        "clear">>, <<"action", "select_all">>} ],
    [ name |-> "browser_select",
      properties |-> {"selector", "values", "multiSelect"},
      required |-> {"selector", "values"},
      enums |-> {} ],
    [ name |-> "browser_press",
      properties |-> {"key", "selector"},
      required |-> {"key"},
      enums |-> {} ],
    [ name |-> "browser_scroll",
      properties |-> {"action", "selector", "direction", "amount", "x",
        "y"},
      required |-> {"action"},
      enums |-> {<<"action", "scroll">>, <<"action", "scroll_into_view">>,
        <<"direction", "up">>, <<"direction", "down">>, <<"direction",
        "left">>, <<"direction", "right">>} ],
    [ name |-> "browser_find",
      properties |-> {"method", "value", "exact", "action", "fillValue",
        "index", "selector"},
      required |-> {"method", "value"},
      enums |-> {<<"method", "role">>, <<"method", "text">>, <<"method",
        "label">>, <<"method", "placeholder">>, <<"method", "testId">>,
        <<"method", "title">>, <<"method", "altText">>, <<"method", "nth">>,
        <<"action", "click">>, <<"action", "hover">>, <<"action", "fill">>,
        <<"action", "check">>} ],
    [ name |-> "browser_get",
      properties |-> {"property", "selector", "attribute"},
      required |-> {"property", "selector"},
      enums |-> {<<"property", "text">>, <<"property", "innerText">>,
        <<"property", "innerHtml">>, <<"property", "html">>, <<"property",
        "value">>, <<"property", "attribute">>, <<"property",
        "boundingBox">>, <<"property", "count">>} ],
    [ name |-> "browser_check_state",
      properties |-> {"state", "selector"},
      required |-> {"state", "selector"},
      enums |-> {<<"state", "visible">>, <<"state", "enabled">>, <<"state",
        "checked">>} ],
    [ name |-> "browser_storage",
      properties |-> {"action", "type", "key", "value"},
      required |-> {"action", "type"},
      enums |-> {<<"action", "get">>, <<"action", "set">>, <<"action",
        "clear">>, <<"type", "local">>, <<"type", "session">>} ],
    [ name |-> "browser_cookies",
      properties |-> {"action", "cookies", "urls"},
      required |-> {"action"},
      enums |-> {<<"action", "get">>, <<"action", "set">>} ],
    [ name |-> "browser_state",
      properties |-> {"action", "path"},
      required |-> {"action", "path"},
      enums |-> {<<"action", "save">>, <<"action", "load">>} ],
    [ name |-> "browser_set_context",
      properties |-> {"setting", "device", "width", "height", "latitude",
        "longitude", "accuracy", "locale", "timezone", "offline", "media",
        "colorScheme", "reducedMotion", "headers", "username", "password"},
      required |-> {"setting"},
      enums |-> {<<"setting", "device">>, <<"setting", "viewport">>,
        <<"setting", "geolocation">>, <<"setting", "locale">>, <<"setting",
        "timezone">>, <<"setting", "offline">>, <<"setting", "media">>,
        <<"setting", "headers">>, <<"setting", "credentials">>, <<"media",
        "screen">>, <<"media", "print">>, <<"colorScheme", "light">>,
        <<"colorScheme", "dark">>, <<"colorScheme", "no-preference">>,
        <<"reducedMotion", "reduce">>, <<"reducedMotion", "no-preference">>}
        ],
    [ name |-> "browser_dialog",
      properties |-> {"action", "promptText"},
      required |-> {"action"},
      enums |-> {<<"action", "accept">>, <<"action", "dismiss">>} ],
    [ name |-> "browser_mouse",
      properties |-> {"action", "button", "x", "y", "deltaX", "deltaY",
        "selector"},
      required |-> {"action"},
      enums |-> {<<"action", "down">>, <<"action", "up">>, <<"action",
        "move">>, <<"action", "wheel">>, <<"button", "left">>, <<"button",
        "right">>, <<"button", "middle">>} ],
    [ name |-> "browser_keyboard_raw",
      properties |-> {"action", "key", "keys"},
      required |-> {"action"},
      enums |-> {<<"action", "down">>, <<"action", "up">>, <<"action",
        "shortcut">>} ],
    [ name |-> "browser_network",
      properties |-> {"action", "url", "filter", "clear", "abort",
        "response"},
      required |-> {"action"},
      enums |-> {<<"action", "route">>, <<"action", "unroute">>, <<"action",
        "requests">>} ],
    [ name |-> "browser_response_body",
      properties |-> {"url", "timeout"},
      required |-> {"url"},
      enums |-> {} ],
    [ name |-> "browser_evaluate",
      properties |-> {"script", "args"},
      required |-> {"script"},
      enums |-> {} ],
    [ name |-> "browser_set_content",
      properties |-> {"html"},
      required |-> {"html"},
      enums |-> {} ],
    [ name |-> "browser_add_script",
      properties |-> {"content", "url"},
      required |-> {},
      enums |-> {} ],
    [ name |-> "browser_add_style",
      properties |-> {"content", "url"},
      required |-> {},
      enums |-> {} ],
    [ name |-> "browser_add_init_script",
      properties |-> {"script"},
      required |-> {"script"},
      enums |-> {} ],
    [ name |-> "browser_dispatch_event",
      properties |-> {"selector", "event", "eventInit"},
      required |-> {"selector", "event"},
      enums |-> {} ],
    [ name |-> "browser_logs",
      properties |-> {"type", "clear"},
      required |-> {"type"},
      enums |-> {<<"type", "console">>, <<"type", "errors">>} ],
    [ name |-> "browser_highlight",
      properties |-> {"selector"},
      required |-> {"selector"},
      enums |-> {} ],
    [ name |-> "browser_styles",
      properties |-> {"selector"},
      required |-> {"selector"},
      enums |-> {} ],
    [ name |-> "browser_screencast",
      properties |-> {"action", "format", "quality", "maxWidth",
        "maxHeight"},
      required |-> {"action"},
      enums |-> {<<"action", "start">>, <<"action", "stop">>, <<"format",
        "jpeg">>, <<"format", "png">>} ],
    [ name |-> "browser_trace",
      properties |-> {"action", "screenshots", "snapshots", "path"},
      required |-> {"action"},
      enums |-> {<<"action", "start">>, <<"action", "stop">>} ],
    [ name |-> "browser_recording",
      properties |-> {"action", "path", "url"},
      required |-> {"action"},
      enums |-> {<<"action", "start">>, <<"action", "stop">>, <<"action",
        "restart">>} ],
    [ name |-> "browser_har",
      properties |-> {"action", "path"},
      required |-> {"action"},
      enums |-> {<<"action", "start">>, <<"action", "stop">>} ],
    [ name |-> "browser_tab",
      properties |-> {"action", "index", "url"},
      required |-> {"action"},
      enums |-> {<<"action", "list">>, <<"action", "new">>, <<"action",
        "switch">>, <<"action", "close">>} ],
    [ name |-> "browser_window",
      properties |-> {"action", "viewportWidth", "viewportHeight"},
      required |-> {"action"},
      enums |-> {<<"action", "new">>, <<"action", "bring_to_front">>} ],
    [ name |-> "browser_frame",
      properties |-> {"action", "selector", "name", "url"},
      required |-> {"action"},
      enums |-> {<<"action", "switch">>, <<"action", "main">>} ],
    [ name |-> "browser_pdf",
      properties |-> {"path", "format"},
      required |-> {"path"},
      enums |-> {<<"format", "Letter">>, <<"format", "Legal">>, <<"format",
        "Tabloid">>, <<"format", "Ledger">>, <<"format", "A0">>, <<"format",
        "A1">>, <<"format", "A2">>, <<"format", "A3">>, <<"format", "A4">>,
        <<"format", "A5">>, <<"format", "A6">>} ],
    [ name |-> "browser_download",
      properties |-> {"selector", "path"},
      required |-> {"selector", "path"},
      enums |-> {} ],
    [ name |-> "browser_wait",
      properties |-> {"selector", "timeout", "state"},
      required |-> {},
      enums |-> {<<"state", "attached">>, <<"state", "detached">>,
        <<"state", "visible">>, <<"state", "hidden">>} ],
    [ name |-> "browser_wait_for",
      properties |-> {"condition", "url", "state", "expression", "path",
        "timeout"},
      required |-> {"condition"},
      enums |-> {<<"condition", "url">>, <<"condition", "load_state">>,
        <<"condition", "function">>, <<"condition", "download">>, <<"state",
        "load">>, <<"state", "domcontentloaded">>, <<"state",
        "networkidle">>} ],
    [ name |-> "browser_clipboard",
      properties |-> {"action", "text"},
      required |-> {"action"},
      enums |-> {<<"action", "copy">>, <<"action", "paste">>, <<"action",
        "read">>} ],
    [ name |-> "browser_upload",
      properties |-> {"selector", "files"},
      required |-> {"selector", "files"},
      enums |-> {} ],
    [ name |-> "browser_drag",
      properties |-> {"source", "target"},
      required |-> {"source", "target"},
      enums |-> {} ],
    [ name |-> "browser_multiselect",
      properties |-> {"selector", "values"},
      required |-> {"selector", "values"},
      enums |-> {} ],
    [ name |-> "browser_set_value",
      properties |-> {"selector", "value"},
      required |-> {"selector", "value"},
      enums |-> {} ],
    [ name |-> "browser_ios_device_list",
      properties |-> {},
      required |-> {},
      enums |-> {} ],
    [ name |-> "browser_ios_swipe",
      properties |-> {"direction", "distance"},
      required |-> {"direction"},
      enums |-> {<<"direction", "up">>, <<"direction", "down">>,
        <<"direction", "left">>, <<"direction", "right">>} ]
  >>

\* const TOOLS: Tool[] = MERGED_TOOLS
TOOLS_StrayRequired == [MERGED_TOOLS EXCEPT ![2].required = {"url", "href"}]
TOOLS == MERGED_TOOLS

ToolNames == {MERGED_TOOLS[i].name : i \in DOMAIN MERGED_TOOLS}

\* the registry entry of an advertised name
Tool(name) ==
  MERGED_TOOLS[CHOOSE i \in DOMAIN MERGED_TOOLS : MERGED_TOOLS[i].name = name]

\* the enum list a tool declares for a property ({} when it declares none)
Enum(t, field) == {p[2] : p \in {q \in t.enums : q[1] = field}}

\* every key a tool's schema declares
SchemaKeys == UNION {MERGED_TOOLS[i].properties : i \in DOMAIN MERGED_TOOLS}

\* keys the mapper writes that no schema declares, with the two property
\* names findCmd[method] takes for a method outside its table
CommandKeys ==
  {"operation", "testId", "role", "label", "placeholder", "title",
   "viewport", "viewport.width", "viewport.height", "bogus", "undefined"}

\* ------------------------------------------------------- argument bags
ABSENT == "<absent>"        \* the key is not in the object
UNDEF == "<undefined>"      \* the JavaScript value undefined
NULL == "<null>"            \* the JavaScript value null
Keys == SchemaKeys \cup CommandKeys

\* An object is the function from the keys it has to their values.
NoArgs == [k \in {} |-> ABSENT]

\* the value under k, or ABSENT when the object has no such key
At(o, k) == IF k \in DOMAIN o THEN o[k] ELSE ABSENT

\* args.k in JavaScript: a missing key reads as undefined
Prop(args, k) == IF k \in DOMAIN args THEN args[k] ELSE UNDEF

\* { action: a, ...args }: keys of args override the literal action
Spread(a, args) ==
  [k \in DOMAIN args \cup {"action"} |->
     IF k \in DOMAIN args THEN args[k] ELSE a]

\* { action: a } followed by  if (args.k !== undefined) cmd.k = args.k
WithOptional(a, args, opt) ==
  [k \in {"action"} \cup {x \in opt : Prop(args, x) # UNDEF} |->
     IF k = "action" THEN a ELSE args[k]]

\* a[k] of a lookup table: a missing key reads as undefined
Lookup(table, k) == IF k \in DOMAIN table THEN table[k] ELSE UNDEF

\* v ?? d
Nullish(v, d) == IF v \in {UNDEF, NULL} THEN d ELSE v

\* { action: a }
Cmd(a) == [k \in {"action"} |-> a]

\* cmd.k = v
Put(cmd, k, v) ==
  [x \in DOMAIN cmd \cup {k} |-> IF x = k THEN v ELSE cmd[x]]

\* cmd.k = args.k for each k of ks, whatever args.k is
Fwd(cmd, args, ks) ==
  [k \in DOMAIN cmd \cup ks |-> IF k \in ks THEN Prop(args, k) ELSE cmd[k]]

\* if (args.k !== undefined) cmd.k = args.k, for each k of ks
Opt(cmd, args, ks) ==
  [k \in DOMAIN cmd \cup {x \in ks : Prop(args, x) # UNDEF} |->
     IF k \in ks /\ Prop(args, k) # UNDEF THEN args[k] ELSE cmd[k]]

\* the case labels of the mapper's switch
MappedTools ==
  {"browser_launch", "browser_navigate", "browser_snapshot",
   "browser_screenshot", "browser_close", "browser_history",
   "browser_page_info", "browser_element_action", "browser_input",
   "browser_input_action", "browser_press", "browser_scroll",
   "browser_find", "browser_get", "browser_check_state", "browser_storage",
   "browser_cookies", "browser_state", "browser_set_context",
   "browser_dialog", "browser_mouse", "browser_keyboard_raw",
   "browser_network", "browser_response_body", "browser_evaluate",
   "browser_set_content", "browser_add_script", "browser_add_style",
   "browser_add_init_script", "browser_dispatch_event", "browser_logs",
   "browser_highlight", "browser_styles", "browser_screencast",
   "browser_trace", "browser_recording", "browser_har", "browser_tab",
   "browser_window", "browser_frame", "browser_pdf", "browser_download",
   "browser_wait", "browser_wait_for", "browser_clipboard",
   "browser_upload", "browser_drag", "browser_select",
   "browser_multiselect", "browser_set_value", "browser_ios_device_list",
   "browser_ios_swipe"}

elemCmd(args) ==
  Opt(Fwd(Cmd(Prop(args, "action")), args, {"selector"}),
      args, {"button", "clickCount"})

typeCmd(args) ==
  Opt(Put(Fwd(Cmd("type"), args, {"selector"}), "text", Prop(args, "value")),
      args, {"delay"})

pressCmd(args) == Opt(Fwd(Cmd("press"), args, {"key"}), args, {"selector"})

scrollCmd(args) ==
  Opt(Cmd("scroll"), args, {"selector", "direction", "amount", "x", "y"})

findByActionMap ==
  [role |-> "find_by_role", text |-> "find_by_text",
   label |-> "find_by_label", placeholder |-> "find_by_placeholder",
   testId |-> "find_by_test_id", title |-> "find_by_title",
   altText |-> "find_by_alt_text", nth |-> "find_nth"]

\* args.method === 'testId' ? 'testId' : method === 'altText' ? 'text'
\* : method, used as a property name
findKey(method) ==
  IF method = "testId" THEN "testId"
  ELSE IF method = "altText" THEN "text"
  ELSE IF method = UNDEF THEN "undefined"
  ELSE method

findCmd(args) ==
  LET method == Prop(args, "method")
      c0 == Cmd(Lookup(findByActionMap, method))
      c1 == IF method = "nth"
            THEN Put(Fwd(c0, args, {"selector"}),
                     "index", Nullish(Prop(args, "index"), "0"))
            ELSE Opt(Put(c0, findKey(method), Prop(args, "value")),
                     args, {"exact"})
      c2 == IF Prop(args, "action") # UNDEF
            THEN LET c == Put(c1, "action", args["action"]) IN
                 IF args["action"] = "fill" /\ Prop(args, "fillValue") # UNDEF
                 THEN Put(c, "value", args["fillValue"])
                 ELSE c
            ELSE c1 IN
  c2

getActionMap_HtmlAsInnerHtml ==
  [text |-> "get_text", innerText |-> "get_inner_text",
   innerHtml |-> "get_inner_html", html |-> "get_inner_html",
   value |-> "get_value", attribute |-> "get_attribute",
   boundingBox |-> "bounding_box", count |-> "count"]
getActionMap ==
  [text |-> "get_text", innerText |-> "get_inner_text",
   innerHtml |-> "get_inner_html", html |-> "content",
   value |-> "get_value", attribute |-> "get_attribute",
   boundingBox |-> "bounding_box", count |-> "count"]

getCmd(args) ==
  LET prop == Prop(args, "property")
      c == Fwd(Cmd(Lookup(getActionMap, prop)), args, {"selector"}) IN
  IF prop = "attribute" THEN Fwd(c, args, {"attribute"}) ELSE c

stateActionMap ==
  [visible |-> "is_visible", enabled |-> "is_enabled",
   checked |-> "is_checked"]

storageActionMap == [get |-> "get", set |-> "set", clear |-> "clear"]

storageCmd(args) ==
  Opt(Fwd(Cmd(Lookup(storageActionMap, Prop(args, "action"))),
          args, {"type"}),
      args, {"key", "value"})

getCookieCmd(args) == Opt(Cmd("get"), args, {"urls"})

\* the inner switch (setting) of browser_set_context; it has no default
contextCmd(args) ==
  LET setting == Prop(args, "setting") IN
  CASE setting = "device" -> Fwd(Cmd("set_device"), args, {"device"})
    [] setting = "viewport" ->
         Fwd(Cmd("set_viewport"), args, {"width", "height"})
    [] setting = "geolocation" ->
         Opt(Fwd(Cmd("set_geolocation"), args, {"latitude", "longitude"}),
             args, {"accuracy"})
    [] setting = "locale" -> Fwd(Cmd("set_locale"), args, {"locale"})
    [] setting = "timezone" -> Fwd(Cmd("set_timezone"), args, {"timezone"})
    [] setting = "offline" -> Fwd(Cmd("set_offline"), args, {"offline"})
    [] setting = "media" ->
         Opt(Cmd("emulate_media"), args,
             {"media", "colorScheme", "reducedMotion"})
    [] setting = "headers" -> Fwd(Cmd("set_headers"), args, {"headers"})
    [] setting = "credentials" ->
         Fwd(Cmd("set_credentials"), args, {"username", "password"})
    [] OTHER -> NoArgs

dialogCmd(args) ==
  Opt(Cmd(IF Prop(args, "action") = "accept" THEN "dialog_accept"
          ELSE "dialog_dismiss"),
      args, {"promptText"})

mouseCmd(args) ==
  Opt(Cmd(IF Prop(args, "action") = "down" THEN "mouse_down"
          ELSE IF Prop(args, "action") = "up" THEN "mouse_up"
          ELSE IF Prop(args, "action") = "move" THEN "mouse_move"
          ELSE "wheel"),
      args, {"button", "x", "y", "deltaX", "deltaY", "selector"})

keyCmd(args) ==
  Fwd(Cmd(IF Prop(args, "action") = "down" THEN "key_down" ELSE "key_up"),
      args, {"key"})

reqCmd(args) == Opt(Cmd("requests"), args, {"filter", "clear"})

routeCmd(args) ==
  Opt(Fwd(Cmd("route"), args, {"url"}), args, {"abort", "response"})

respCmd(args) ==
  Opt(Fwd(Cmd("response_body"), args, {"url"}), args, {"timeout"})

evalCmd(args) == Opt(Fwd(Cmd("evaluate"), args, {"script"}), args, {"args"})

eventCmd(args) ==
  Opt(Fwd(Cmd("dispatch_event"), args, {"selector", "event"}),
      args, {"eventInit"})

\* { action: args.type, clear: args.clear }
logsCmd(args) == Fwd(Cmd(Prop(args, "type")), args, {"clear"})

screencastCmd(args) ==
  Opt(Cmd(IF Prop(args, "action") = "start" THEN "screencast_start"
          ELSE "screencast_stop"),
      args, {"format", "quality", "maxWidth", "maxHeight"})

traceCmd(args) ==
  IF Prop(args, "action") = "start"
  THEN Opt(Cmd("trace_start"), args, {"screenshots", "snapshots"})
  ELSE Fwd(Cmd("trace_stop"), args, {"path"})

recAction(args) ==
  IF Prop(args, "action") = "start" THEN "recording_start"
  ELSE IF Prop(args, "action") = "stop" THEN "recording_stop"
  ELSE "recording_restart"

harCmd(args) ==
  LET c == Cmd(IF Prop(args, "action") = "start" THEN "har_start"
               ELSE "har_stop") IN
  IF Prop(args, "action") = "stop" THEN Fwd(c, args, {"path"}) ELSE c

\* `tab_${args.action}`
tabAction(action) ==
  "tab_" \o (IF action = UNDEF THEN "undefined" ELSE action)

tabCmd(args) ==
  Opt(Cmd(tabAction(Prop(args, "action"))), args, {"index", "url"})

\* winCmd.viewport = {} and its width and height
winCmd(args) ==
  LET w == Prop(args, "viewportWidth")
      h == Prop(args, "viewportHeight")
      c0 == Cmd("window_new")
      c1 == IF w # UNDEF \/ h # UNDEF THEN Put(c0, "viewport", "{}") ELSE c0
      c2 == IF w # UNDEF THEN Put(c1, "viewport.width", w) ELSE c1
      c3 == IF h # UNDEF THEN Put(c2, "viewport.height", h) ELSE c2 IN
  c3

frameCmd(args) == Opt(Cmd("frame"), args, {"selector", "name", "url"})

pdfCmd(args) == Opt(Fwd(Cmd("pdf"), args, {"path"}), args, {"format"})

waitCmd(args) == Opt(Cmd("wait"), args, {"selector", "timeout", "state"})

waitForActionMap_NoDownload ==
  [url |-> "wait_for_url", load_state |-> "wait_for_load_state",
   function |-> "wait_for_function"]
waitForActionMap ==
  [url |-> "wait_for_url", load_state |-> "wait_for_load_state",
   function |-> "wait_for_function", download |-> "wait_for_download"]

waitForCmd(args) ==
  Opt(Cmd(Lookup(waitForActionMap, Prop(args, "condition"))),
      args, {"url", "state", "expression", "path", "timeout"})

clipCmd(args) ==
  Opt(Put(Cmd("clipboard"), "operation", Prop(args, "action")),
      args, {"text"})

swipeCmd(args) ==
  Opt(Fwd(Cmd("swipe"), args, {"direction"}), args, {"distance"})

mapMergedToolToCommand(name, args) ==
  CASE name = "browser_launch" -> Spread("launch", args)
    [] name = "browser_navigate" -> Spread("navigate", args)
    [] name = "browser_snapshot" -> Spread("snapshot", args)
    [] name = "browser_screenshot" -> Spread("screenshot", args)
    [] name = "browser_close" -> Spread("close", args)
    [] name = "browser_history" -> Cmd(Prop(args, "action"))
    [] name = "browser_page_info" ->
         Cmd(IF Prop(args, "info") = "url" THEN "url" ELSE "title")
    [] name = "browser_element_action" -> elemCmd(args)
    [] name = "browser_input" ->
         IF Prop(args, "action") = "fill"
         THEN Fwd(Cmd("fill"), args, {"selector", "value"})
         ELSE typeCmd(args)
    [] name = "browser_input_action" ->
         Fwd(Cmd(Prop(args, "action")), args, {"selector"})
    [] name = "browser_press" -> pressCmd(args)
    [] name = "browser_scroll" ->
         IF Prop(args, "action") = "scroll_into_view"
         THEN Fwd(Cmd("scroll_into_view"), args, {"selector"})
         ELSE scrollCmd(args)
    [] name = "browser_find" -> findCmd(args)
    [] name = "browser_get" -> getCmd(args)
    [] name = "browser_check_state" ->
         Fwd(Cmd(Lookup(stateActionMap, Prop(args, "state"))),
             args, {"selector"})
    [] name = "browser_storage" -> storageCmd(args)
    [] name = "browser_cookies" ->
         IF Prop(args, "action") = "get" THEN getCookieCmd(args)
         ELSE Fwd(Cmd("set"), args, {"cookies"})
    [] name = "browser_state" ->
         Fwd(Cmd(IF Prop(args, "action") = "save" THEN "state_save"
                 ELSE "state_load"),
             args, {"path"})
    [] name = "browser_set_context" -> contextCmd(args)
    [] name = "browser_dialog" -> dialogCmd(args)
    [] name = "browser_mouse" -> mouseCmd(args)
    [] name = "browser_keyboard_raw" ->
         IF Prop(args, "action") = "shortcut"
         THEN Fwd(Cmd("keyboard"), args, {"keys"})
         ELSE keyCmd(args)
    [] name = "browser_network" ->
         IF Prop(args, "action") = "requests" THEN reqCmd(args)
         ELSE IF Prop(args, "action") = "route" THEN routeCmd(args)
         ELSE Fwd(Cmd("unroute"), args, {"url"})
    [] name = "browser_response_body" -> respCmd(args)
    [] name = "browser_evaluate" -> evalCmd(args)
    [] name = "browser_set_content" -> Fwd(Cmd("set_content"), args, {"html"})
    [] name = "browser_add_script" -> Spread("add_script", args)
    [] name = "browser_add_style" -> Spread("add_style", args)
    [] name = "browser_add_init_script" ->
         Fwd(Cmd("add_init_script"), args, {"script"})
    [] name = "browser_dispatch_event" -> eventCmd(args)
    [] name = "browser_logs" -> logsCmd(args)
    [] name = "browser_highlight" ->
         Fwd(Cmd("highlight"), args, {"selector"})
    [] name = "browser_styles" -> Fwd(Cmd("styles"), args, {"selector"})
    [] name = "browser_screencast" -> screencastCmd(args)
    [] name = "browser_trace" -> traceCmd(args)
    [] name = "browser_recording" ->
         WithOptional(recAction(args), args, {"path", "url"})
    [] name = "browser_har" -> harCmd(args)
    [] name = "browser_tab" -> tabCmd(args)
    [] name = "browser_window" ->
         IF Prop(args, "action") = "new" THEN winCmd(args)
         ELSE Cmd("bring_to_front")
    [] name = "browser_frame" ->
         IF Prop(args, "action") = "main" THEN Cmd("main_frame")
         ELSE frameCmd(args)
    [] name = "browser_pdf" -> pdfCmd(args)
    [] name = "browser_download" ->
         Fwd(Cmd("download"), args, {"selector", "path"})
    [] name = "browser_wait" -> waitCmd(args)
    [] name = "browser_wait_for" -> waitForCmd(args)
    [] name = "browser_clipboard" -> clipCmd(args)
    [] name = "browser_upload" ->
         Fwd(Cmd("upload"), args, {"selector", "files"})
    [] name = "browser_drag" -> Fwd(Cmd("drag"), args, {"source", "target"})
    [] name = "browser_select" ->
         Fwd(Cmd("select"), args, {"selector", "values"})
    [] name = "browser_multiselect" ->
         Fwd(Cmd("multiselect"), args, {"selector", "values"})
    [] name = "browser_set_value" ->
         Fwd(Cmd("set_value"), args, {"selector", "value"})
    [] name = "browser_ios_device_list" ->
         WithOptional("device_list", args, {})
    [] name = "browser_ios_swipe" -> swipeCmd(args)
    [] OTHER -> NoArgs

\* default: throw new Error(`Unknown merged tool: ${name}`)
MapperThrows_Swipe(name) ==
  name \notin MappedTools \ {"browser_ios_swipe"}
MapperThrows(name) == name \notin MappedTools

\* the argument each case of the mapper dispatches on
Discriminants ==
  [browser_history |-> "action", browser_page_info |-> "info",
   browser_element_action |-> "action", browser_input |-> "action",
   browser_input_action |-> "action", browser_scroll |-> "action",
   browser_find |-> "method", browser_get |-> "property",
   browser_check_state |-> "state", browser_storage |-> "action",
   browser_cookies |-> "action", browser_state |-> "action",
   browser_set_context |-> "setting", browser_dialog |-> "action",
   browser_mouse |-> "action", browser_keyboard_raw |-> "action",
   browser_network |-> "action", browser_logs |-> "type",
   browser_screencast |-> "action", browser_trace |-> "action",
   browser_recording |-> "action", browser_har |-> "action",
   browser_tab |-> "action", browser_window |-> "action",
   browser_frame |-> "action", browser_wait_for |-> "condition",
   browser_clipboard |-> "action"]

HasDiscriminant(name) == name \in DOMAIN Discriminants

\* the values each case compares its discriminant with: the literals of its
\* === tests, the labels of its inner switch, the keys of its table
MapperKeys ==
  [browser_history |-> {}, browser_page_info |-> {"url"},
   browser_element_action |-> {}, browser_input |-> {"fill"},
   browser_input_action |-> {}, browser_scroll |-> {"scroll_into_view"},
   browser_find |-> DOMAIN findByActionMap \cup {"nth", "testId", "altText"},
   browser_get |-> DOMAIN getActionMap \cup {"attribute"},
   browser_check_state |-> DOMAIN stateActionMap,
   browser_storage |-> DOMAIN storageActionMap,
   browser_cookies |-> {"get"}, browser_state |-> {"save"},
   browser_set_context |->
     {"device", "viewport", "geolocation", "locale", "timezone", "offline",
      "media", "headers", "credentials"},
   browser_dialog |-> {"accept"}, browser_mouse |-> {"down", "up", "move"},
   browser_keyboard_raw |-> {"shortcut", "down"},
   browser_network |-> {"requests", "route"}, browser_logs |-> {},
   browser_screencast |-> {"start"}, browser_trace |-> {"start"},
   browser_recording |-> {"start", "stop"},
   browser_har |-> {"start", "stop"}, browser_tab |-> {},
   browser_window |-> {"new"}, browser_frame |-> {"main"},
   browser_wait_for |-> DOMAIN waitForActionMap,
   browser_clipboard |-> {}]

\* ------------------------------------------------------ response texts
\* A text is the sequence of its pieces; concatenation is \o.
UnknownToolMessage(name) ==
  <<"Unknown", " ", "merged", " ", "tool", ": ", name>>

ErrorText(msg) == <<"Error", ": ">> \o msg

CtorError == <<"constructor failed">>
LaunchError == <<"launch failed">>
DriverError == <<"driver error">>
DriverThrown == <<"driver threw">>

\* s occurs in t as a contiguous run of pieces
Contains(t, s) ==
  \E i \in 0..(Len(t) - Len(s)) : \A j \in 1..Len(s) : t[i + j] = s[j]

NoResponse == [isError |-> FALSE, content |-> <<>>]

\* the catch of the CallToolRequestSchema handler
HandlerErrorResponse_NoFlag(msg) ==
  [isError |-> FALSE, content |-> <<ErrorText(msg)>>]
HandlerErrorResponse(msg) ==
  [isError |-> TRUE, content |-> <<ErrorText(msg)>>]

\* the catch of execute and its success=false branch
ExecuteErrorResponse(msg) ==
  [isError |-> FALSE, content |-> <<ErrorText(msg)>>]

\* response.data: a string, or an object whose fields hold texts
StrData(t) == [isString |-> TRUE, text |-> t, fields |-> <<>>]
ObjData(f) == [isString |-> FALSE, text |-> <<>>, fields |-> f]

\* the one field the data of a content command has
HtmlData(html) == ObjData([k \in {"html"} |-> html])

\* String(data)
StringOf(data) ==
  IF data.isString THEN data.text ELSE <<"[object Object]">>

\* JSON.stringify(data, null, 2)
RECURSIVE JsonFields(_, _)
JsonFields(f, ks) ==
  IF ks = {} THEN <<>>
  ELSE LET k == CHOOSE x \in ks : TRUE IN
       <<"\"", k, "\": \"">> \o f[k] \o <<"\"">> \o JsonFields(f, ks \ {k})

JsonOf(data) ==
  IF data.isString THEN <<"\"">> \o data.text \o <<"\"">>
  ELSE <<"{">> \o JsonFields(data.fields, DOMAIN data.fields) \o <<"}">>

\* a field read as a condition: present and not the empty string
Truthy(data, k) ==
  /\ ~data.isString
  /\ k \in DOMAIN data.fields
  /\ data.fields[k] # <<>>

\* data.html || String(data)
HtmlOrString(data) ==
  IF Truthy(data, "html") THEN data.fields["html"] ELSE StringOf(data)

\* data.base64.substring(0, 50): a piece of a base64 text stands for 50
\* characters
Substring50(t) == IF Len(t) > 1 THEN SubSeq(t, 1, 1) ELSE t

\* the branches of execute for response.success
ExecuteSuccessResponse(action, data) ==
  [isError |-> FALSE,
   content |->
     CASE action = "snapshot" ->
            << IF data.isString THEN data.text ELSE JsonOf(data) >>
       [] action = "screenshot" /\ Truthy(data, "base64") ->
            << <<"Screenshot captured (base64: ">>
                 \o Substring50(data.fields["base64"]) \o <<"...)">>
                 \o (IF Truthy(data, "path")
                     THEN <<" saved to ">> \o data.fields["path"]
                     ELSE <<>>),
               <<"Full base64 data: ">> \o data.fields["base64"] >>
       [] action = "content" -> << HtmlOrString(data) >>
       [] OTHER -> << JsonOf(data) >>]

\* ------------------------------------------------------------- inputs
Arg1(k, v) == [x \in {k} |-> v]
Arg2(k1, v1, k2, v2) == [x \in {k1, k2} |-> IF x = k1 THEN v1 ELSE v2]

Inputs ==
  { [name |-> "browser_launch", args |-> NoArgs],
    [name |-> "browser_launch", args |-> Arg1("provider", "ios")],
    [name |-> "browser_launch", args |-> Arg1("provider", "browserbase")],
    [name |-> "browser_launch", args |-> Arg1("provider", "kernel")],
    [name |-> "browser_launch", args |-> Arg1("action", "navigate")],
    [name |-> "browser_navigate", args |-> Arg1("url", "u")],
    [name |-> "browser_navigate",
     args |-> Arg2("action", "launch", "provider", "ios")],
    [name |-> "browser_get", args |-> Arg1("property", "html")],
    [name |-> "browser_close", args |-> NoArgs],
    [name |-> "browser_ios_device_list", args |-> NoArgs],
    [name |-> "browser_recording", args |-> Arg1("action", "start")],
    [name |-> "browser_recording", args |-> Arg1("action", "stop")],
    [name |-> "browser_recording", args |-> Arg1("action", "restart")],
    [name |-> "browser_frobnicate", args |-> NoArgs] }

\* the calls tried against each other when several are in flight
ConcurrentInputs ==
  { [name |-> "browser_launch", args |-> NoArgs],
    [name |-> "browser_launch", args |-> Arg1("provider", "ios")],
    [name |-> "browser_navigate", args |-> Arg1("url", "u")],
    [name |-> "browser_close", args |-> NoArgs],
    [name |-> "browser_frobnicate", args |-> NoArgs] }

EnvValues == {UNDEF, "ios"}
HeadedValues == {UNDEF, "1"}

\* -------------------------------------------------------------- state
VARIABLES
  envProvider,   \* process.env.AGENT_BROWSER_PROVIDER
  envHeaded,     \* process.env.AGENT_BROWSER_HEADED
  proc,          \* the process: running or ended, and its signal handlers
  mp,            \* one invocation of the mapper, and the tools/list answer
  manager,       \* the module-level manager reference
  nextId,        \* identity of the next object a constructor returns
  kind,          \* per object: "ios" (IOSManager), "desktop", or "none"
  dstate,        \* per object, the driver's state: "new", "launched",
                 \* "closed", or "stuck" (launched, and a close() rejected)
  call,          \* per tool call in flight: position and locals
  hist           \* history of the run, read only by the properties

vars ==
  <<envProvider, envHeaded, proc, mp, manager, nextId, kind, dstate, call,
    hist>>

\* Locals of one call: name, args, cmd (the mapped command), gsite/esite
\* (who called getManager / ensureBrowserLaunched), gprov (getManager's
\* argument), old (the manager getManager found on entry), ret (the value a
\* resolved getManager hands back), m (execute's m), em
\* (ensureBrowserLaunched's m), resp (the response sent).  The rest records
\* what the call did, for the properties.
IdleCall ==
  [pc |-> "idle", name |-> "", args |-> NoArgs, cmd |-> NoArgs,
   gsite |-> "", esite |-> "", gprov |-> UNDEF, old |-> None,
   ret |-> None, m |-> None, em |-> None,
   resp |-> NoResponse,
   alone |-> FALSE, arrMgr |-> None, arrLaunched |-> FALSE,
   launches |-> 0, launchOk |-> FALSE, launchMode |-> "none",
   switchedArr |-> FALSE, madeDesktop |-> FALSE,
   retTorn |-> FALSE, threw |-> FALSE,
   failure |-> "none", failMsg |-> <<>>, prevFail |-> None]

\* history: the command the driver answered last with success, and its data
NoAnswer == [action |-> "", data |-> ObjData(<<>>)]

NoHist ==
  [tornDown |-> {}, closedByCmd |-> {}, lastFail |-> None,
   madeFor |-> [i \in Insts |-> "none"], sent |-> {},
   answered |-> NoAnswer]

\* no signal delivered yet; sig holds one record per handler run: the
\* handler's position, the manager it found and whether it called close()
\* on it (the SIGINT and the SIGTERM handler are the same code)
RunningProcess == [state |-> "running", sig |-> <<>>]

\* the mapper not invoked, tools/list not answered
IdleMapper ==
  [phase |-> "idle", name |-> "", args |-> NoArgs, out |-> NoArgs,
   tools |-> <<>>]

InitServer ==
  /\ envProvider \in EnvValues
  /\ envHeaded \in HeadedValues
  /\ proc = RunningProcess
  /\ manager = None
  /\ nextId = 1
  /\ kind = [i \in Insts |-> "none"]
  /\ dstate = [i \in Insts |-> "new"]
  /\ call = [c \in Procs |-> IdleCall]
  /\ hist = NoHist

Init == InitServer /\ mp = IdleMapper

\* the shared state as one value
Shared ==
  [manager |-> manager, nextId |-> nextId, kind |-> kind,
   dstate |-> dstate, hist |-> hist]

\* ------------------------------------------------------- the driver
isLaunched(sh, i) == sh.dstate[i] \in {"launched", "stuck"}

\* m.launch(...) resolves (ok) or rejects
DriverLaunch(sh, i, ok) ==
  IF ok THEN [sh EXCEPT !.dstate[i] = "launched"] ELSE sh

\* m.close() resolves (ok) or rejects
DriverClose(sh, i, ok) ==
  IF ok THEN [sh EXCEPT !.dstate[i] = "closed"]
  ELSE IF isLaunched(sh, i) THEN [sh EXCEPT !.dstate[i] = "stuck"]
  ELSE sh

\* the data a successful command comes back with
HtmlValues == {<<>>, <<"<p>">>}

DriverData(action) ==
  CASE action = "content" -> {HtmlData(html) : html \in HtmlValues}
    [] action = "snapshot" ->
         {StrData(<<"tree">>), ObjData([k \in {"snapshot"} |-> <<"tree">>])}
    [] action = "screenshot" ->
         {ObjData([k \in {"base64"} |-> <<"b1", "b2">>]),
          ObjData([k \in {"base64", "path"} |->
                     IF k = "path" THEN <<"p">> ELSE <<"b1">>]),
          ObjData([k \in {"path"} |-> <<"p">>])}
    [] OTHER -> {ObjData(<<>>)}

\* executeCommand / executeIOSCommand(command, m) with outcome
\* "ok" (success true), "fail" (success false) or "throw"
DriverExecute(sh, i, action, outcome) ==
  IF outcome # "ok" THEN sh
  ELSE IF action = "launch" THEN DriverLaunch(sh, i, TRUE)
  ELSE IF action = "close"
       THEN [DriverClose(sh, i, TRUE) EXCEPT
               !.hist.closedByCmd =
                  IF isLaunched(sh, i) THEN @ \cup {i} ELSE @]
  ELSE sh

\* where a failure inside ensureBrowserLaunched happened: in the call made
\* by handleToolCall, or in the one made inside execute's try block
EnsureFailure(l) == IF l.esite = "H" THEN "handler_launch" ELSE "autolaunch"

\* where a failure inside getManager happened
GetManagerFailure(l) == IF l.gsite = "X" THEN "resolve" ELSE EnsureFailure(l)

\* ------------------------------------------------------- getManager
\* provider ?? process.env.AGENT_BROWSER_PROVIDER
EffectiveProvider(provider) ==
  IF provider # UNDEF THEN provider ELSE envProvider

\* history: the provider a manager was constructed for, kept for the calls
\* that arrive with no other call in flight
NoteMadeFor(sh, l, provider) ==
  IF l.alone
  THEN [sh EXCEPT !.hist.madeFor[sh.manager] = EffectiveProvider(provider)]
  ELSE sh

isIOSProvider_IgnoreEnv(provider) == provider = "ios"
isIOSProvider(provider) ==
  (IF provider # UNDEF THEN provider ELSE envProvider) = "ios"

NeedsSwitch_Never(shouldUseIOS, isCurrentIOS) == FALSE
NeedsSwitch(shouldUseIOS, isCurrentIOS) == shouldUseIOS # isCurrentIOS

\* manager = shouldUseIOS ? new IOSManager() : new BrowserManager()
Construct(sh, shouldUseIOS) ==
  [sh EXCEPT !.manager = sh.nextId,
             !.nextId = sh.nextId + 1,
             !.kind[sh.nextId] = IF shouldUseIOS THEN "ios" ELSE "desktop",
             !.dstate[sh.nextId] = "new"]

\* `await manager.close().catch(() => {})` then the assignment: the
\* replacement does not depend on how close() ended
ReplaceAfterClose_OnlyIfClosed(closeOk) == closeOk
ReplaceAfterClose(closeOk) == TRUE

\* getManager up to its first suspension
getManagerEnter(sh, provider, ctorOk) ==
  LET shouldUseIOS == isIOSProvider(provider) IN
  IF sh.manager = None
  THEN IF ctorOk THEN [tag |-> "ret", sh |-> Construct(sh, shouldUseIOS)]
       ELSE [tag |-> "throw", sh |-> sh]
  ELSE IF NeedsSwitch(shouldUseIOS, sh.kind[sh.manager] = "ios")
       THEN [tag |-> "close", sh |-> sh]
       ELSE [tag |-> "ret", sh |-> sh]

\* ------------------------------------------- continuations of one call
\* A step works on the pair P = [sh |-> shared state, l |-> the call].
\* the call ends: its locals go away, its response stays
Respond(P, r) ==
  [P EXCEPT !.l = [IdleCall EXCEPT !.pc = "done", !.resp = r,
                                   !.failure = P.l.failure,
                                   !.failMsg = P.l.failMsg,
                                   !.threw = P.l.threw]]

Fail(P, what, msg) ==
  IF P.l.failure = "none"
  THEN [P EXCEPT !.l.failure = what, !.l.failMsg = msg]
  ELSE P

\* CallToolRequestSchema handler: catch (error)
handlerCatch(P, msg) == Respond(P, HandlerErrorResponse(msg))

\* execute: catch (error)
executeCatch(P, msg) == Respond(P, ExecuteErrorResponse(msg))

\* an exception leaving ensureBrowserLaunched
ThrowFromEnsure_Continue(P, msg) == [P EXCEPT !.l.pc = "ens_ret"]
ThrowFromEnsure(P, msg) ==
  IF P.l.esite = "H" THEN handlerCatch(P, msg) ELSE executeCatch(P, msg)

\* an exception leaving getManager: the call in ensureBrowserLaunched
\* propagates as above; the call on the first line of execute is outside
\* the try block
ThrowFromGetManager(P, msg) ==
  IF P.l.gsite = "E" THEN ThrowFromEnsure(P, msg)
  ELSE handlerCatch([P EXCEPT !.l.threw = TRUE], msg)

getManager(P, provider, gsite, ctorOk) ==
  LET r == getManagerEnter(P.sh, provider, ctorOk)
      sh1 == IF r.sh.manager # P.sh.manager
             THEN NoteMadeFor(r.sh, P.l, provider) ELSE r.sh
      P1 == [P EXCEPT !.sh = sh1, !.l.gsite = gsite, !.l.gprov = provider,
                      !.l.old = P.sh.manager] IN
  CASE r.tag = "ret" ->
         [P1 EXCEPT !.l.pc = "gm_ret", !.l.ret = r.sh.manager,
                    !.l.retTorn = r.sh.manager \in r.sh.hist.tornDown]
    [] r.tag = "close" -> [P1 EXCEPT !.l.pc = "gm_close"]
    [] OTHER ->
         ThrowFromGetManager(Fail(P1, GetManagerFailure(P1.l), CtorError),
                             CtorError)

\* getManager after `await manager.close().catch(() => {})`
getManagerResume(P, closeOk, ctorOk) ==
  LET sh1 == DriverClose(P.sh, P.l.old, closeOk)
      shouldUseIOS == isIOSProvider(P.l.gprov) IN
  IF ~ReplaceAfterClose(closeOk)
  THEN [P EXCEPT !.sh = sh1, !.l.pc = "gm_ret", !.l.ret = sh1.manager,
                 !.l.retTorn = sh1.manager \in sh1.hist.tornDown]
  ELSE IF ctorOk
  THEN LET sh2 == [NoteMadeFor(Construct(sh1, shouldUseIOS), P.l,
                                   P.l.gprov) EXCEPT
                     !.hist.tornDown = @ \cup {P.l.old}] IN
       [P EXCEPT !.sh = sh2, !.l.pc = "gm_ret", !.l.ret = sh2.manager,
                 !.l.retTorn = sh2.manager \in sh2.hist.tornDown,
                 !.l.switchedArr = @ \/ (P.l.alone /\ P.l.old = P.l.arrMgr),
                 !.l.madeDesktop = @ \/ ~shouldUseIOS]
  ELSE ThrowFromGetManager(
         Fail([P EXCEPT !.sh = sh1], GetManagerFailure(P.l), CtorError),
         CtorError)

\* ensureBrowserLaunched(): const m = await getManager()
ensureBrowserLaunched(P, esite, ctorOk) ==
  getManager([P EXCEPT !.l.esite = esite], UNDEF, "E", ctorOk)

\* ensureBrowserLaunched(headless: boolean = true): both call sites pass
\* no argument
headlessDefault == TRUE

\* the options of m.launch: {} for an IOSManager, { headless, ... } otherwise
LaunchMode(kindOfM, headless) ==
  IF kindOfM = "ios" THEN "ios"
  ELSE IF headless THEN "headless" ELSE "headed"

\* if (!m.isLaunched())
EnsureNeedsLaunch_Always(sh, i) == TRUE
EnsureNeedsLaunch_Inverted(sh, i) == isLaunched(sh, i)
EnsureNeedsLaunch(sh, i) == ~isLaunched(sh, i)

\* command.action === 'launch' ? command.provider : undefined
launchProvider(cmd) ==
  IF At(cmd, "action") = "launch" THEN Prop(cmd, "provider") ELSE UNDEF

\* execute: const m = await getManager(launchProvider)
execute(P, ctorOk) == getManager(P, launchProvider(P.l.cmd), "X", ctorOk)

\* the actions execute does not auto-launch for
ExecuteExemptActions ==
  {"launch", "close", "device_list", "video_start", "video_stop"}

AutoLaunchNeeded(sh, i, action) ==
  ~isLaunched(sh, i) /\ action \notin ExecuteExemptActions

\* the tool names handleToolCall does not auto-launch for
HandlerExemptTools ==
  {"browser_launch", "browser_close", "browser_ios_device_list"}

\* values Math.random().toString(36).substring(7) can give: any text, and
\* nothing keeps two draws apart
RandomIds == {"k1", "k2"}

\* the id of the launch command ensureBrowserLaunched builds for a
\* BrowserManager; the {} it passes to an IOSManager has none
LaunchCommandId(kindOfM) ==
  IF kindOfM = "ios" THEN ABSENT ELSE "mcp-launch"

\* history: the identifiers handed to the driver so far, kept for the calls
\* whose identifier is followed
NoteSent(P, id) ==
  IF At(P.l.cmd, "id") # ABSENT /\ id # ABSENT
  THEN [P EXCEPT !.sh.hist.sent = @ \cup {id}]
  ELSE P

\* await executeCommand(command, m) is issued
beginExecute(P) ==
  [NoteSent(P, At(P.l.cmd, "id")) EXCEPT !.l.pc = "executing"]

\* ------------------------------------------------------------ actions
Commit(c, P) ==
  /\ manager' = P.sh.manager
  /\ nextId' = P.sh.nextId
  /\ kind' = P.sh.kind
  /\ dstate' = P.sh.dstate
  /\ hist' = P.sh.hist
  /\ call' = [call EXCEPT ![c] = P.l]
  /\ proc.state = "running"
  /\ UNCHANGED <<envProvider, envHeaded, proc, mp>>

Here(c) == [sh |-> Shared, l |-> call[c]]

CtorChoice(ctorOk) == ctorOk => nextId <= MaxInstances

\* { ...mappedCmd, id: generateId() }; id is ABSENT in the calls whose
\* identifier is not followed (the program never reads it)
WithId(mappedCmd, id) ==
  IF id = ABSENT THEN mappedCmd ELSE Put(mappedCmd, "id", id)

\* handleToolCall(name, args) up to its first suspension
StartCall(c, inp, ctorOk, alone, id) ==
  LET l0 == IF alone
            THEN [IdleCall EXCEPT
                    !.name = inp.name, !.args = inp.args, !.alone = TRUE,
                    !.arrMgr = manager,
                    !.arrLaunched =
                       (manager # None /\ isLaunched(Shared, manager)),
                    !.prevFail = hist.lastFail]
            ELSE [IdleCall EXCEPT !.name = inp.name, !.args = inp.args]
      P0 == [sh |-> [Shared EXCEPT !.hist.lastFail = None,
                                   !.hist.answered = NoAnswer],
             l |-> l0] IN
  IF MapperThrows(inp.name)
  THEN Commit(c, handlerCatch(Fail(P0, "mapping", UnknownToolMessage(inp.name)),
                              UnknownToolMessage(inp.name)))
  ELSE LET P1 == [P0 EXCEPT
                    !.l.cmd = WithId(mapMergedToolToCommand(inp.name,
                                                            inp.args),
                                     id)] IN
       IF inp.name \notin HandlerExemptTools
       THEN Commit(c, ensureBrowserLaunched(P1, "H", ctorOk))
       ELSE Commit(c, execute(P1, ctorOk))

\* a tool call arrives while others may be suspended
Start(c) ==
  /\ call[c].pc \in {"idle", "done"}
  /\ \E inp \in ConcurrentInputs, ctorOk \in BOOLEAN :
       CtorChoice(ctorOk) /\ StartCall(c, inp, ctorOk, FALSE, ABSENT)

\* a tool call arrives when no other call is in flight
StartAlone(c) ==
  /\ \A d \in Procs : call[d].pc \in {"idle", "done"}
  /\ \E inp \in Inputs, ctorOk \in BOOLEAN :
       CtorChoice(ctorOk) /\ StartCall(c, inp, ctorOk, TRUE, ABSENT)

\* the same, with the identifier generateId gives the command followed
StartWithId(c) ==
  /\ \A d \in Procs : call[d].pc \in {"idle", "done"}
  /\ \E inp \in Inputs, ctorOk \in BOOLEAN, id \in RandomIds :
       CtorChoice(ctorOk) /\ StartCall(c, inp, ctorOk, TRUE, id)

\* the close() awaited by getManager settles
CloseDone(c) ==
  /\ call[c].pc = "gm_close"
  /\ \E closeOk \in BOOLEAN, ctorOk \in BOOLEAN :
       /\ CtorChoice(ctorOk)
       /\ Commit(c, getManagerResume(Here(c), closeOk, ctorOk))

\* the caller of getManager resumes with the manager it returned
GetManagerReturn(c) ==
  /\ call[c].pc = "gm_ret"
  /\ \E ctorOk \in BOOLEAN :
       /\ CtorChoice(ctorOk)
       /\ LET P == Here(c) IN
          IF P.l.gsite = "E"
          THEN LET P1 == [P EXCEPT !.l.em = P.l.ret, !.l.ret = None,
                                   !.l.old = None, !.l.gprov = UNDEF] IN
               IF EnsureNeedsLaunch(P.sh, P.l.ret)
               THEN Commit(c, [NoteSent(P1, LaunchCommandId(
                                                  P.sh.kind[P.l.ret])) EXCEPT
                                 !.l.pc = "launching",
                                 !.l.launches = @ + 1,
                                 !.l.launchMode =
                                    LaunchMode(P.sh.kind[P.l.ret],
                                               headlessDefault)])
               ELSE Commit(c, [P1 EXCEPT !.l.pc = "ens_ret", !.l.em = None])
          ELSE LET P1 == [P EXCEPT !.l.m = P.l.ret, !.l.ret = None,
                                   !.l.old = None, !.l.gprov = UNDEF] IN
               IF AutoLaunchNeeded(P.sh, P.l.ret, At(P.l.cmd, "action"))
               THEN Commit(c, ensureBrowserLaunched(P1, "X", ctorOk))
               ELSE Commit(c, beginExecute(P1))

\* the launch awaited by ensureBrowserLaunched settles
LaunchDone(c) ==
  /\ call[c].pc = "launching"
  /\ \E ok \in BOOLEAN :
       LET P == Here(c)
           P1 == [P EXCEPT !.sh = DriverLaunch(P.sh, P.l.em, ok)] IN
       IF ok
       THEN Commit(c, [P1 EXCEPT !.l.pc = "ens_ret", !.l.launchOk = TRUE,
                                 !.l.em = None, !.l.launchMode = "none"])
       ELSE Commit(c, ThrowFromEnsure(
                        Fail(P1, EnsureFailure(P.l), LaunchError),
                        LaunchError))

\* the caller of ensureBrowserLaunched resumes
EnsureReturn(c) ==
  /\ call[c].pc = "ens_ret"
  /\ \E ctorOk \in BOOLEAN :
       /\ CtorChoice(ctorOk)
       /\ IF call[c].esite = "H"
          THEN Commit(c, execute(Here(c), ctorOk))
          ELSE Commit(c, beginExecute(Here(c)))

NonLifecycle(action) == action \notin {"launch", "close"}

\* the driver call awaited by execute settles and execute returns
ExecuteDone(c) ==
  /\ call[c].pc = "executing"
  /\ \E outcome \in {"ok", "fail", "throw"},
        data \in DriverData(At(call[c].cmd, "action")) :
       LET P == Here(c)
           action == At(P.l.cmd, "action")
           sh0 == DriverExecute(P.sh, P.l.m, action, outcome)
           sh1 == IF outcome = "ok" /\ P.l.alone
                  THEN [sh0 EXCEPT !.hist.answered =
                                      [action |-> action, data |-> data]]
                  ELSE sh0
           sh2 == IF /\ outcome # "ok" /\ NonLifecycle(action)
                     /\ P.l.alone /\ isLaunched(P.sh, P.l.m)
                  THEN [sh1 EXCEPT !.hist.lastFail = P.l.m]
                  ELSE sh1
           P1 == [P EXCEPT !.sh = sh2] IN
       CASE outcome = "ok" ->
              Commit(c, Respond(P1, ExecuteSuccessResponse(action, data)))
         [] outcome = "fail" ->
              Commit(c, Respond(Fail(P1, "driver", DriverError),
                                ExecuteErrorResponse(DriverError)))
         [] OTHER ->
              Commit(c, executeCatch(Fail(P1, "driver", DriverThrown),
                                     DriverThrown))

Next ==
  \E c \in Procs :
    \/ Start(c)
    \/ CloseDone(c)
    \/ GetManagerReturn(c)
    \/ LaunchDone(c)
    \/ EnsureReturn(c)
    \/ ExecuteDone(c)

Spec == Init /\ [][Next]_vars

\* the same program with calls processed one at a time
NextSeq ==
  \E c \in {1} :
    \/ StartAlone(c)
    \/ CloseDone(c)
    \/ GetManagerReturn(c)
    \/ LaunchDone(c)
    \/ EnsureReturn(c)
    \/ ExecuteDone(c)

SpecSeq == Init /\ [][NextSeq]_vars

\* calls processed one at a time, each command's identifier followed
NextId ==
  \E c \in {1} :
    \/ StartWithId(c)
    \/ CloseDone(c)
    \/ GetManagerReturn(c)
    \/ LaunchDone(c)
    \/ EnsureReturn(c)
    \/ ExecuteDone(c)

SpecId == Init /\ [][NextId]_vars

\* ----------------------------------------------- termination signals
Signals == {"SIGINT", "SIGTERM"}

\* if (manager)
SignalNeedsClose_Never(m) == FALSE
SignalNeedsClose(m) == m # None

\* process.on(s, async () => { ... }) up to its first suspension: with a
\* manager it awaits manager.close(), without one it calls process.exit(0)
Signal(s) ==
  /\ proc.state = "running"
  /\ Len(proc.sig) < MaxSignals
  /\ IF SignalNeedsClose(manager)
     THEN proc' = [proc EXCEPT
                     !.sig = Append(@, [pc |-> "closing", m |-> manager,
                                        closeTried |-> TRUE])]
     ELSE proc' = [state |-> "exited",
                   sig |-> Append(proc.sig,
                                  [pc |-> "exited", m |-> manager,
                                   closeTried |-> FALSE])]
  /\ UNCHANGED <<envProvider, envHeaded, mp, manager, nextId, kind, dstate,
                 call, hist>>

\* the close() awaited by handler h settles.  Resolved: process.exit(0).
\* Rejected: the handler's promise rejects with nothing to catch it, which
\* ends the process or only prints a warning, depending on the runtime's
\* unhandled-rejection mode.
SignalCloseDone(h) ==
  /\ proc.state = "running"
  /\ h \in DOMAIN proc.sig
  /\ proc.sig[h].pc = "closing"
  /\ \E closeOk \in BOOLEAN, fatal \in BOOLEAN :
       /\ dstate' = DriverClose(Shared, proc.sig[h].m, closeOk).dstate
       /\ proc' =
            IF closeOk
            THEN [proc EXCEPT !.state = "exited", !.sig[h].pc = "exited"]
            ELSE [proc EXCEPT !.state = IF fatal THEN "crashed" ELSE @,
                              !.sig[h].pc = "rejected"]
  /\ UNCHANGED <<envProvider, envHeaded, mp, manager, nextId, kind, call,
                 hist>>

\* tool calls one at a time, with signals arriving at any await
NextSig ==
  \/ \E c \in {1} :
       \/ Start(c)
       \/ CloseDone(c)
       \/ GetManagerReturn(c)
       \/ LaunchDone(c)
       \/ EnsureReturn(c)
       \/ ExecuteDone(c)
  \/ \E s \in Signals : Signal(s)
  \/ \E h \in 1..MaxSignals : SignalCloseDone(h)

SpecSig == Init /\ [][NextSig]_vars

\* a promise the program awaits settles: the continuation of a tool call runs,
\* and the close() awaited by a signal handler resolves or rejects
Settle ==
  \/ \E c \in {1} :
       \/ CloseDone(c)
       \/ GetManagerReturn(c)
       \/ LaunchDone(c)
       \/ EnsureReturn(c)
       \/ ExecuteDone(c)
  \/ \E h \in 1..MaxSignals : SignalCloseDone(h)

\* the same program on an event loop that runs every continuation that is
\* ready; requests and signals arrive or not, as the environment decides
SpecSigFair == SpecSig /\ WF_vars(Settle)

\* ------------------------------------------------- the mapper by itself
Bogus == "bogus"       \* a value no enum declares
Sample == "v"          \* the value of every other argument

\* the arguments tried for one tool: its discriminant takes every declared
\* value, an undeclared one, or is missing; of the other declared
\* properties none, one, or all are present
ToolInputs(t) ==
  LET disc == IF HasDiscriminant(t.name) THEN Discriminants[t.name] ELSE ""
      discValues == IF disc = "" THEN {ABSENT}
                    ELSE Enum(t, disc) \cup {Bogus, ABSENT}
      others == t.properties \ {disc}
      present == {{}, others} \cup {{k} : k \in others} IN
  { [name |-> t.name,
     args |-> [k \in S \cup (IF d = ABSENT THEN {} ELSE {disc}) |->
                 IF k = disc THEN d ELSE Sample]] :
    d \in discValues, S \in present }

SpecialInputs ==
  { [name |-> "browser_set_context",
     args |-> Arg2("setting", "media", "colorScheme", "null")],
    [name |-> "browser_set_context",
     args |-> Arg2("setting", "media", "colorScheme", "dark")],
    [name |-> "browser_find",
     args |-> [method |-> "role", value |-> Sample, action |-> "fill",
               fillValue |-> Sample]],
    [name |-> "browser_find",
     args |-> [method |-> "nth", value |-> Sample, selector |-> Sample,
               index |-> NULL]] }

MapInputs ==
  UNION {ToolInputs(MERGED_TOOLS[i]) : i \in DOMAIN MERGED_TOOLS}
    \cup SpecialInputs \cup Inputs

\* the mapper is about to be invoked on one (name, args) pair
InitMap ==
  /\ InitServer
  /\ \E inp \in MapInputs :
       mp = [IdleMapper EXCEPT !.phase = "called", !.name = inp.name,
                               !.args = inp.args]

\* mapMergedToolToCommand({ name, args }) returns
MapperReturn ==
  /\ mp.phase = "called"
  /\ ~MapperThrows(mp.name)
  /\ mp' = [mp EXCEPT !.phase = "returned",
                      !.out = mapMergedToolToCommand(mp.name, mp.args)]
  /\ UNCHANGED <<envProvider, envHeaded, proc, manager, nextId, kind,
                 dstate, call, hist>>

\* mapMergedToolToCommand({ name, args }) throws
MapperThrow ==
  /\ mp.phase = "called"
  /\ MapperThrows(mp.name)
  /\ mp' = [mp EXCEPT !.phase = "threw"]
  /\ UNCHANGED <<envProvider, envHeaded, proc, manager, nextId, kind,
                 dstate, call, hist>>

\* the ListToolsRequestSchema handler: return { tools: TOOLS }
ListTools ==
  /\ mp.tools = <<>>
  /\ mp' = [mp EXCEPT !.tools = TOOLS]
  /\ UNCHANGED <<envProvider, envHeaded, proc, manager, nextId, kind,
                 dstate, call, hist>>

NextMap == MapperReturn \/ MapperThrow \/ ListTools

SpecMap == InitMap /\ [][NextMap]_vars

\* ---------------------------------------------------------- properties
InFlight(c) == call[c].pc \notin {"idle", "done"}

\* a call that was mapped and whose tool handleToolCall auto-launches for
AutoLaunching(c) ==
  /\ InFlight(c) /\ call[c].alone
  /\ call[c].name \notin HandlerExemptTools

\* the session found on arrival runs the backend the environment selects
ArrivalMatchesEnv(c) ==
  /\ call[c].arrMgr # None
  /\ (kind[call[c].arrMgr] = "ios") = (envProvider = "ios")

\* C1 as stated: with calls processed one at a time, a call to a tool other
\* than browser_launch, browser_close and browser_ios_device_list performs
\* exactly one launch, completed before its command reaches the driver, if
\* the session was not launched on arrival, and no launch if it was.
C1_OneLaunchIffNotLaunched ==
  \A c \in Procs : AutoLaunching(c) =>
    /\ call[c].arrLaunched => call[c].launches = 0
    /\ call[c].pc = "executing" =>
         /\ call[c].launches = IF call[c].arrLaunched THEN 0 ELSE 1
         /\ call[c].launches = 1 => call[c].launchOk

\* C1 as amended: the call performs no launch if the session was launched
\* on arrival and runs the backend AGENT_BROWSER_PROVIDER selects; in every
\* other case its command reaches the driver only after exactly one launch
\* by the call has completed; no call launches twice.
C1_OneLaunchIffNotReady ==
  \A c \in Procs : AutoLaunching(c) =>
    LET ready == call[c].arrLaunched /\ ArrivalMatchesEnv(c) IN
    /\ call[c].launches <= 1
    /\ ready => call[c].launches = 0
    /\ call[c].pc = "executing" =>
         /\ call[c].launches = IF ready THEN 0 ELSE 1
         /\ call[c].launches = 1 => call[c].launchOk

C1_Witness ==
  \E c \in Procs :
    /\ AutoLaunching(c) /\ call[c].pc = "executing"
    /\ ~call[c].arrLaunched /\ call[c].launches = 1 /\ call[c].launchOk

\* C2: under any interleaving of tool calls at their awaits, at most one
\* manager instance is launched and not closed (an instance whose close()
\* was attempted and rejected counts as torn down, not as live).
C2_AtMostOneLive ==
  Cardinality({i \in Insts : dstate[i] = "launched"}) <= 1

\* C3: when getManager finds a manager of the other backend than the one
\* requested, it attempts close() on it and, however that close() ends,
\* makes a newly constructed manager of the requested backend the current
\* one and returns it; no getManager call ever returns a manager that was
\* torn down this way before.
C3_SwitchConstructsFresh ==
  \A c \in Procs :
    /\ ~call[c].retTorn
    /\ ( /\ call[c].pc = "gm_ret" /\ call[c].old # None
         /\ (call[c].gprov = "ios" \/
             (call[c].gprov = UNDEF /\ envProvider = "ios"))
            # (kind[call[c].old] = "ios") )
       => /\ call[c].ret # call[c].old
          /\ call[c].ret = nextId - 1
          /\ manager = call[c].ret
          /\ (kind[call[c].ret] = "ios") =
               (call[c].gprov = "ios" \/
                (call[c].gprov = UNDEF /\ envProvider = "ios"))
          /\ dstate[call[c].ret] = "new"
          /\ call[c].old \in hist.tornDown
          /\ dstate[call[c].old] # "launched"

C3_Witness ==
  \E c \in Procs :
    /\ call[c].pc = "gm_ret" /\ call[c].old # None
    /\ call[c].ret # call[c].old
    /\ dstate[call[c].old] = "stuck"
    /\ kind[call[c].old] = "desktop" /\ kind[call[c].ret] = "ios"
    /\ \E i \in hist.tornDown : i # call[c].old /\ kind[i] = "ios"

\* a getManager call without a provider that found a manager
NoProviderCall(c) ==
  /\ call[c].pc \in {"gm_ret", "gm_close"}
  /\ call[c].gprov = UNDEF /\ call[c].old # None

\* C4 as stated: if a session exists and the call requests no provider,
\* getManager returns the existing session, with no close and no
\* replacement, whatever its backend and AGENT_BROWSER_PROVIDER are.
C4_NoProviderKeepsSession ==
  \A c \in Procs : NoProviderCall(c) =>
    /\ call[c].pc = "gm_ret"
    /\ call[c].ret = call[c].old
    /\ manager = call[c].old

\* C4 as amended: the existing session is returned unchanged exactly when
\* its backend is the one AGENT_BROWSER_PROVIDER selects; otherwise
\* getManager closes it and replaces it.
C4_NoProviderKeepsMatchingSession ==
  \A c \in Procs : NoProviderCall(c) =>
    IF (kind[call[c].old] = "ios") = (envProvider = "ios")
    THEN /\ call[c].pc = "gm_ret"
         /\ call[c].ret = call[c].old
         /\ manager = call[c].old
    ELSE \/ call[c].pc = "gm_close"
         \/ /\ call[c].ret # call[c].old
            /\ call[c].old \in hist.tornDown

C4_Witness ==
  \E c \in Procs :
    /\ NoProviderCall(c) /\ call[c].pc = "gm_ret"
    /\ call[c].ret = call[c].old /\ manager = call[c].old
    /\ kind[call[c].old] = "ios" /\ dstate[call[c].old] = "launched"

\* a call that is not browser_launch, carries no provider, and arrived at
\* an iOS session while AGENT_BROWSER_PROVIDER is not ios
AfterIOSLaunch(c) ==
  /\ call[c].alone /\ call[c].arrMgr # None
  /\ kind[call[c].arrMgr] = "ios" /\ envProvider # "ios"
  /\ call[c].name # "browser_launch"
  /\ At(call[c].args, "provider") = ABSENT

\* C5: after browser_launch with provider ios created an iOS session
\* (AGENT_BROWSER_PROVIDER not ios), the next non-launch call without a
\* provider has closed the iOS session and replaced it with a desktop
\* session by the time its command is handed to the driver.
C5_IOSReplacedBeforeCommand ==
  \A c \in Procs :
    (AfterIOSLaunch(c) /\ call[c].pc = "executing") =>
      /\ call[c].switchedArr /\ call[c].madeDesktop
      /\ call[c].arrMgr \in hist.tornDown
      /\ manager # call[c].arrMgr
      /\ call[c].m = manager
      /\ kind[call[c].m] = "desktop"

C5_Witness ==
  \E c \in Procs :
    /\ AfterIOSLaunch(c) /\ call[c].pc = "executing"
    /\ call[c].arrLaunched
    /\ call[c].name = "browser_navigate" /\ call[c].switchedArr
    /\ dstate[call[c].arrMgr] = "closed"

\* C6: a launched instance that browser_close has closed is never launched
\* again.
C6_ClosedNeverRelaunched ==
  [][\A i \in Insts :
       (i \in hist.closedByCmd /\ dstate[i] = "closed")
         => dstate'[i] # "launched"]_vars

\* a call that maps to a launch-exempt action
LaunchExemptCall(c) ==
  \/ /\ call[c].name \in HandlerExemptTools
     /\ At(call[c].cmd, "action") \in {"launch", "close", "device_list"}
  \/ /\ call[c].name = "browser_recording"
     /\ At(call[c].args, "action") \in {"start", "stop"}

\* C7: browser_launch, browser_close, browser_ios_device_list and
\* browser_recording with action start or stop never auto-launch.
C7_ExemptNeverAutoLaunch ==
  \A c \in Procs :
    (InFlight(c) /\ LaunchExemptCall(c)) => call[c].launches = 0

\* C8: execute never throws past its boundary; every failure inside it
\* (resolving the session, auto-launching, the driver failing or throwing)
\* yields exactly one text item "Error: " followed by the failure message.
C8_ExecuteNeverThrows ==
  \A c \in Procs :
    (call[c].pc = "done" /\
     call[c].failure \in {"resolve", "autolaunch", "driver"}) =>
      /\ ~call[c].threw
      /\ call[c].resp.content = <<ErrorText(call[c].failMsg)>>

UnknownToolCall(c) == call[c].pc = "done" /\ call[c].failure = "mapping"

\* C9 as stated: a call to a tool that is not in the registry is answered
\* with isError true and a text containing "Unknown tool".
C9_UnknownToolText ==
  \A c \in Procs : UnknownToolCall(c) =>
    /\ call[c].resp.isError
    /\ \E k \in 1..Len(call[c].resp.content) :
         Contains(call[c].resp.content[k], <<"Unknown", " ", "tool">>)

\* C9 as amended: the answer has isError true and one text item,
\* "Error: Unknown merged tool: <name>".
C9_UnknownMergedToolText ==
  \A c \in Procs : UnknownToolCall(c) =>
    /\ call[c].resp.isError
    /\ Len(call[c].resp.content) = 1
    /\ call[c].resp.content[1] =
         <<"Error", ": ", "Unknown", " ", "merged", " ", "tool", ": ",
           "browser_frobnicate">>

C9_Witness ==
  \E c \in Procs :
    /\ UnknownToolCall(c) /\ call[c].resp.isError
    /\ manager # None

\* the next call asks for the backend the failed command ran on
SameBackendRequested(c) ==
  \/ launchProvider(call[c].cmd) = UNDEF
  \/ (launchProvider(call[c].cmd) = "ios") = (kind[call[c].prevFail] = "ios")

\* C10: after a non-lifecycle command failed at the driver (success=false
\* or an exception) on a launched session, that manager is still the
\* current one and still launched, and the next command runs on it with
\* no launch and no replacement.
C10_FailureKeepsSession ==
  /\ hist.lastFail # None =>
       /\ manager = hist.lastFail
       /\ dstate[hist.lastFail] \in {"launched", "stuck"}
  /\ \A c \in Procs :
       ( /\ InFlight(c) /\ call[c].alone /\ call[c].prevFail # None
         /\ SameBackendRequested(c) )
       => /\ manager = call[c].prevFail
          /\ call[c].launches = 0
          /\ call[c].pc \notin {"gm_close", "launching"}
          /\ call[c].pc = "executing" => call[c].m = call[c].prevFail

C10_Witness ==
  \E c \in Procs :
    /\ call[c].alone /\ call[c].prevFail # None
    /\ call[c].pc = "executing" /\ call[c].m = call[c].prevFail
    /\ call[c].name = "browser_navigate"

\* a signal handler that found a session and then called process.exit(0)
ExitedWithSession(h) ==
  /\ proc.sig[h].pc = "exited"
  /\ proc.sig[h].m # None

\* C11 as stated: when a SIGINT or SIGTERM handler that found a session
\* ends the process, close() was attempted on that session and the
\* module-level manager reference has been cleared.
C11_ClosedAndClearedBeforeExit ==
  \A h \in DOMAIN proc.sig : ExitedWithSession(h) =>
    /\ proc.sig[h].closeTried
    /\ manager = None

\* C11 as amended: when a SIGINT or SIGTERM handler that found a session
\* calls process.exit(0), close() was attempted on that session and has
\* resolved; the manager reference is not cleared, it still names a session.
C11_CloseResolvedBeforeExit ==
  \A h \in DOMAIN proc.sig : ExitedWithSession(h) =>
    /\ proc.sig[h].closeTried
    /\ dstate[proc.sig[h].m] = "closed"
    /\ manager # None

C11_Witness ==
  \E h \in DOMAIN proc.sig :
    ExitedWithSession(h) /\ proc.state = "exited"

\* the mapper was invoked on a tool that has a discriminant
MappedDiscriminant ==
  /\ mp.phase \in {"returned", "threw"}
  /\ HasDiscriminant(mp.name)

\* the enum the registry declares for the discriminant of the tool invoked
DeclaredValues == Enum(Tool(mp.name), Discriminants[mp.name])

\* the discriminant value the mapper was given (UNDEF when missing)
GivenValue == Prop(mp.args, Discriminants[mp.name])

\* C12: when the discriminant argument of a merged tool has a value outside
\* the enum the tool declares, the mapper throws; it never returns a
\* command for such a value.
C12_UndeclaredValueRejected ==
  (MappedDiscriminant /\ GivenValue \notin DeclaredValues \cup {UNDEF})
    => mp.phase = "threw"

\* C13: for a field that is not in the tool's required list and that args
\* lacks, the command the mapper returns has no key.
C13_AbsentOptionalOmitted ==
  (mp.phase = "returned" /\ mp.name \in ToolNames) =>
    \A k \in Tool(mp.name).properties \ Tool(mp.name).required :
      k \notin DOMAIN mp.args => k \notin DOMAIN mp.out

\* C14: the mapper returns a command whose action is defined for every
\* value a tool declares for its discriminant, and every value the tool's
\* case of the mapper compares the discriminant with is a declared one.
C14_EnumsAndBranchesAgree ==
  MappedDiscriminant =>
    /\ MapperKeys[mp.name] \subseteq DeclaredValues
    /\ GivenValue \in DeclaredValues =>
         /\ mp.phase = "returned"
         /\ At(mp.out, "action") \notin {ABSENT, UNDEF, NULL, ""}

C14_Witness ==
  /\ mp.phase = "returned" /\ mp.name = "browser_wait_for"
  /\ Prop(mp.args, "condition") = "download"
  /\ At(mp.out, "action") = "wait_for_download"

\* C15: browser_set_context with setting "media" and colorScheme "null"
\* returns an emulate_media command whose colorScheme is null itself, not a
\* string and not a missing key.
C15_NullStringClears ==
  ( /\ mp.phase = "returned" /\ mp.name = "browser_set_context"
    /\ Prop(mp.args, "setting") = "media"
    /\ Prop(mp.args, "colorScheme") = "null" )
  => /\ At(mp.out, "action") = "emulate_media"
     /\ At(mp.out, "colorScheme") = NULL

\* the table C17 states, as <<property, action>> pairs
C17_Table ==
  { <<"text", "get_text">>, <<"innerText", "get_inner_text">>,
    <<"innerHtml", "get_inner_html">>, <<"html", "content">>,
    <<"value", "get_value">>, <<"attribute", "get_attribute">>,
    <<"boundingBox", "bounding_box">>, <<"count", "count">> }

\* C17: for browser_get each declared property value maps to the action the
\* table gives, the selector is forwarded as given, and the command has an
\* attribute key only when property is "attribute".
C17_GetTable ==
  (mp.phase = "returned" /\ mp.name = "browser_get") =>
    /\ \A p \in C17_Table :
         Prop(mp.args, "property") = p[1] => At(mp.out, "action") = p[2]
    /\ {p[1] : p \in C17_Table} = Enum(Tool("browser_get"), "property")
    /\ Prop(mp.out, "selector") = Prop(mp.args, "selector")
    /\ "attribute" \in DOMAIN mp.out => Prop(mp.args, "property") = "attribute"

C17_Witness ==
  /\ mp.phase = "returned" /\ mp.name = "browser_get"
  /\ Prop(mp.args, "property") = "html"
  /\ Prop(mp.args, "selector") = Sample
  /\ At(mp.out, "action") = "content"

\* C18: a launch that ensureBrowserLaunched issues on a desktop manager is
\* headed exactly when AGENT_BROWSER_HEADED is set.
C18_HeadedFollowsEnv ==
  \A c \in Procs :
    (call[c].pc = "launching" /\ kind[call[c].em] = "desktop") =>
      (call[c].launchMode = "headed") = (envHeaded # UNDEF)

\* C19: in the tools the server lists, every name in a tool's required list
\* is one of the tool's properties.
C19_RequiredDeclared ==
  \A i \in DOMAIN mp.tools :
    mp.tools[i].required \subseteq mp.tools[i].properties

C19_Witness ==
  /\ Len(mp.tools) = Len(MERGED_TOOLS)
  /\ \E i \in DOMAIN mp.tools : mp.tools[i].required # {}

\* C20: while a call is suspended in the launch of a session, no other call
\* has been handed that session by getManager.
C20_NoHalfConstructedVisible ==
  \A c, d \in Procs :
    (c # d /\ call[c].pc = "launching" /\ call[d].pc = "gm_ret")
      => call[d].ret # call[c].em

\* C21: under any interleaving of tool calls, no two calls are suspended in
\* a launch of the same manager instance, and no two calls are suspended in
\* getManager's close-and-replace at the same time.
C21_NoOverlappingLifecycle ==
  \A c, d \in Procs : c # d =>
    /\ ~( /\ call[c].pc = "launching" /\ call[d].pc = "launching"
          /\ call[c].em = call[d].em )
    /\ ~(call[c].pc = "gm_close" /\ call[d].pc = "gm_close")

\* a browser_launch call with a provider argument that found a session made
\* for another provider, at the point where execute holds its manager
LaunchOtherProvider(c) ==
  /\ InFlight(c) /\ call[c].alone
  /\ call[c].name = "browser_launch"
  /\ At(call[c].cmd, "action") = "launch"
  /\ Prop(call[c].args, "provider") # UNDEF
  /\ call[c].arrMgr # None
  /\ hist.madeFor[call[c].arrMgr] # Prop(call[c].args, "provider")
  /\ call[c].pc = "executing"

\* C22: when a session exists and browser_launch names a provider other
\* than the one the session was constructed for, the old manager is torn
\* down and the launch command runs on a newly constructed manager.
C22_OtherProviderReplaces ==
  \A c \in Procs : LaunchOtherProvider(c) =>
    /\ call[c].m # call[c].arrMgr
    /\ call[c].arrMgr \in hist.tornDown

\* a SIGINT or SIGTERM has been delivered to the process
SignalReceived == Len(proc.sig) > 0

\* the process has ended through process.exit(0)
ProcessExited == proc.state = "exited"

\* C23: from every state in which a termination signal has been received,
\* the process eventually ends through process.exit, whether the close()
\* the handler awaits resolves or rejects.
C23_SignalLeadsToExit == SignalReceived ~> ProcessExited

\* the step in which the launch awaited by call c rejects
LaunchRejects(c) ==
  /\ call[c].pc = "launching"
  /\ call'[c].pc # "launching"
  /\ dstate'[call[c].em] \notin {"launched", "stuck"}

\* call c has ended with the one-item response "Error: <msg>"
EndedWithError(l, msg) ==
  /\ l.pc = "done"
  /\ l.resp.content = <<ErrorText(msg)>>

\* C24: when the launch that a tool call triggers rejects, the call ends in
\* that very step with the response "Error: <failure message>": the command
\* never reaches the driver, no second launch is started, the session
\* reference and the driver are left as they were, and the process keeps
\* running with the call slot free for the next call.
C24_LaunchFailureEndsCall ==
  [][\A c \in Procs : LaunchRejects(c) =>
        /\ EndedWithError(call'[c], LaunchError)
        /\ manager' = manager
        /\ dstate' = dstate
        /\ proc'.state = "running"]_vars

C24_Witness ==
  \E c \in Procs :
    /\ EndedWithError(call[c], LaunchError)
    /\ call[c].failure \in {"handler_launch", "autolaunch"}
    /\ proc.state = "running"

\* the step in which call c hands its command to the driver
HandsCommand(c) ==
  /\ call[c].pc # "executing"
  /\ call'[c].pc = "executing"

\* the step in which call c hands the launch command of ensureBrowserLaunched
\* to a BrowserManager
HandsAutoLaunch(c) ==
  /\ call[c].pc # "launching"
  /\ call'[c].pc = "launching"
  /\ call'[c].launchMode # "ios"

\* C25: the identifier of every command handed to the driver, the launch
\* command of an auto-launch included, differs from the identifier of every
\* command handed to the driver before it.
C25_IdentifiersFresh ==
  [][\A c \in Procs :
       /\ HandsCommand(c) => At(call'[c].cmd, "id") \notin hist.sent
       /\ HandsAutoLaunch(c) => LaunchCommandId("desktop") \notin hist.sent]_vars

\* call c has just been answered for a content command the driver completed
ContentAnswered(c) ==
  /\ call[c].pc = "done"
  /\ hist.answered.action = "content"

\* C26: the response to a successful content command is the single text
\* item holding the HTML string of the driver's data, whatever that string
\* is, the empty string included.
C26_ContentIsHtml ==
  \A c \in Procs : ContentAnswered(c) =>
    call[c].resp.content = <<hist.answered.data.fields["html"]>>

\* the names in the answer to tools/list
Advertised == {mp.tools[i].name : i \in DOMAIN mp.tools}

\* C27: the names the server advertises are exactly the names the mapper has
\* a case for, each advertised once; the mapper throws "Unknown merged tool"
\* for no advertised name and returns a command for no other name.
C27_RegistryMatchesMapper ==
  /\ mp.tools # <<>> =>
       /\ Advertised = MappedTools
       /\ \A i, j \in DOMAIN mp.tools :
            mp.tools[i].name = mp.tools[j].name => i = j
       /\ mp.phase = "threw" => mp.name \notin Advertised
       /\ mp.phase = "returned" => mp.name \in Advertised

C27_Witness ==
  /\ mp.tools # <<>>
  /\ mp.phase = "returned"
  /\ mp.name = "browser_ios_swipe"

\* the table C28 states, as <<method, action>> pairs
C28_Table ==
  { <<"role", "find_by_role">>, <<"text", "find_by_text">>,
    <<"label", "find_by_label">>, <<"placeholder", "find_by_placeholder">>,
    <<"testId", "find_by_test_id">>, <<"title", "find_by_title">>,
    <<"altText", "find_by_alt_text">>, <<"nth", "find_nth">> }

\* C28: for browser_find the action of the returned command is the one the
\* table gives for the method, whether or not args has an action.
C28_FindActionByMethod ==
  (mp.phase = "returned" /\ mp.name = "browser_find") =>
    \A p \in C28_Table :
      Prop(mp.args, "method") = p[1] => At(mp.out, "action") = p[2]

\* the tools C29 names, as <<tool, action>> pairs
C29_Table ==
  { <<"browser_launch", "launch">>, <<"browser_navigate", "navigate">>,
    <<"browser_snapshot", "snapshot">>,
    <<"browser_screenshot", "screenshot">>, <<"browser_close", "close">>,
    <<"browser_add_script", "add_script">>,
    <<"browser_add_style", "add_style">> }

\* C29: for the tools whose arguments are forwarded wholesale, the action of
\* the returned command is the one that belongs to the tool name, whatever
\* keys args has, a key named action included.
C29_SpreadActionFixed ==
  mp.phase = "returned" =>
    \A p \in C29_Table : mp.name = p[1] => At(mp.out, "action") = p[2]

\* an operation: a merged tool with one declared value of its discriminant,
\* or a merged tool that has no discriminant
Operations ==
  UNION { IF HasDiscriminant(n)
          THEN {<<n, v>> : v \in Enum(Tool(n), Discriminants[n])}
          ELSE {<<n, ABSENT>>} : n \in ToolNames }

\* the call that names an operation and nothing else
OperationArgs(op) ==
  IF op[2] = ABSENT THEN NoArgs ELSE Arg1(Discriminants[op[1]], op[2])

\* the canonical action the mapper gives each operation
ActionOfOperation ==
  [op \in Operations |->
     At(mapMergedToolToCommand(op[1], OperationArgs(op)), "action")]

\* the mapper has returned for a call that names operation op and nothing else
ReturnedFor(op) ==
  /\ mp.phase = "returned"
  /\ mp.name = op[1]
  /\ mp.args = OperationArgs(op)

\* C30: the action of the command returned for one operation is the action
\* of no other operation (another merged tool, or the same tool with another
\* declared discriminant value).
C30_OperationsKeptApart ==
  \A op \in Operations : ReturnedFor(op) =>
    \A other \in Operations \ {op} :
      ActionOfOperation[other] # At(mp.out, "action")

TypeOK ==
  /\ manager \in Insts \cup {None}
  /\ nextId \in 1..(MaxInstances + 1)
  /\ \A c \in Procs : call[c].pc \in
       {"idle", "gm_close", "gm_ret", "launching", "ens_ret",
        "executing", "done"}
  /\ proc.state \in {"running", "exited", "crashed"}
  /\ Len(proc.sig) <= MaxSignals
  /\ mp.phase \in {"idle", "called", "returned", "threw"}
====
